---------------------------- MODULE Spec2Model ----------------------------
(***************************************************************************)
(* Model of the delivery-route planner: GlobalRouteOptimizer (cluster      *)
(* building, sequencing, endpoint picking, internal ordering, the sweep    *)
(* over the cluster count, the directions calls with their retries) and    *)
(* RouteOptimizer.optimize_route (validation, per-batch routing, totals).  *)
(*                                                                         *)
(* Units.  Distances are integers in metres, times are integers in         *)
(* milliseconds (the code's minutes and kilometres are these values        *)
(* divided by 60000 and 1000).  A waypoint is [id, x, y]: x is the         *)
(* longitude in degrees, y the latitude expressed in metres of arc along   *)
(* the meridian (latitude in degrees times DegLen).  All planned points    *)
(* of the model lie on one meridian, where the haversine distance of the   *)
(* code is exactly the difference of the y values.  Valid points sit on a  *)
(* grid of GridStep metres, so that every centroid (a mean of at most 8    *)
(* grid values) is an integer.                                             *)
(***************************************************************************)
EXTENDS Integers, Sequences, FiniteSets, TLC

VARIABLES
    \* ---- RouteOptimizer.optimize_route / GlobalRouteOptimizer sweep ----
    pc,                    \* position in the run
    geocoded_data,         \* input rows of optimize_route
    valid_waypoints,       \* rows that passed _validate_and_filter_waypoints
    num_clusters,          \* loop variable of the sweep
    best_performance,      \* best-so-far plan (<<>> is None)
    best_actual_time,      \* best-so-far total time
    best_global_distance,  \* self._best_global_distance
    final_clusters,        \* plan of the scenario under evaluation
    ci,                    \* index of the cluster being measured (1-based)
    total_actual_time,     \* running totals of the scenario
    total_actual_distance,
    result_clusters,       \* result_clusters of the scenario
    global_result,         \* dict returned by optimize_global_clustering
    results,               \* list of RouteOptimizationResult
    scenarios,             \* history: what each finished scenario measured
    hops,                  \* history: hops measured in the current scenario,
                           \* after the sweep those of the returned plan
    \* ---- one directions call (cluster or hop) with its retries ----
    call,
    \* ---- cluster building on large inputs ----
    big

pipeVars == <<pc, geocoded_data, valid_waypoints, num_clusters, best_performance,
              best_actual_time, best_global_distance, final_clusters, ci,
              total_actual_time, total_actual_distance, result_clusters,
              global_result, results, scenarios, hops>>
vars == <<pipeVars, call, big>>

-----------------------------------------------------------------------------
(* Bounds of the model *)

\* largest number of input rows of a pipeline run
MaxN == 6
\* largest number of points given to the cluster builder in SpecBig
MaxBigN == 92
\* largest number of rows given to the coordinate filters in SpecCoord
MaxRows == 2
\* largest number of waypoints given to BatchProcessor.split_waypoints
MaxSplitN == 65
\* largest number of valid points of a sweep in SpecSweep
MaxSweepN == 8

(* Program constants *)

MAX_WAYPOINTS_PER_BATCH == 30
max_retries == 3
KOREA_MIN_LONGITUDE == 124
KOREA_MAX_LONGITUDE == 132
KOREA_MIN_LATITUDE == 33
KOREA_MAX_LATITUDE == 43
\* metres of arc per degree: earth_radius * pi / 180
DegLen == 111195

\* float('inf')
Inf == 1000 * 1000 * 1000
\* grid of the valid points, in metres; divisible by 1..8
GridStep == 8 * 105
\* the meridian of all planned points, and the latitude of grid position 0
Lon0 == KOREA_MIN_LONGITUDE + 3
Lat0 == 37 * DegLen

-----------------------------------------------------------------------------
(* Python helpers *)

Abs(a) == IF a < 0 THEN -a ELSE a
MinOf(a, b) == IF a < b THEN a ELSE b
MaxOf(a, b) == IF a > b THEN a ELSE b
CeilDiv(a, b) == (a + b - 1) \div b

\* list.remove(e): drops the first element equal to e
RemoveFirst(s, e) ==
    IF \A k \in 1..Len(s) : s[k] # e THEN s
    ELSE LET i == CHOOSE k \in 1..Len(s) : s[k] = e /\ \A j \in 1..(k - 1) : s[j] # e
         IN SubSeq(s, 1, i - 1) \o SubSeq(s, i + 1, Len(s))

\* sum(s), adding the two halves of s
RECURSIVE SumSeq(_)
SumSeq(s) ==
    IF s = <<>> THEN 0
    ELSE IF Len(s) = 1 THEN s[1]
    ELSE SumSeq(SubSeq(s, 1, Len(s) \div 2)) + SumSeq(SubSeq(s, (Len(s) \div 2) + 1, Len(s)))

RECURSIVE Flatten(_)
Flatten(ss) == IF ss = <<>> THEN <<>> ELSE Head(ss) \o Flatten(Tail(ss))

Last(s) == s[Len(s)]
\* list(...): the sequence with every element evaluated
List(s) == s \o <<>>
\* min(...) of a non-empty collection of numbers
MinOfSet(S) == CHOOSE m \in S : \A v \in S : m <= v
\* the first index k of 1..n at which F is smallest: the result of a loop
\* "if F(k) < best: best = F(k); result = k", and of min(range, key = F)
FirstMin(n, F(_)) ==
    LET d == List([k \in 1..n |-> F(k)])
        m == MinOfSet({d[k] : k \in 1..n})
    IN CHOOSE k \in 1..n : d[k] = m /\ \A j \in 1..(k - 1) : d[j] # m
\* [s[k] for k in range(len(s)) if owner[k] == c]
Members(s, owner, c) ==
    LET m == SelectSeq([k \in 1..Len(s) |-> k], LAMBDA r : owner[r] = c)
    IN List([k \in 1..Len(m) |-> s[m[k]]])
Range(s) == {s[k] : k \in 1..Len(s)}
\* s[a:b] of Python for 0-based a, b
Slice(s, a, b) == SubSeq(s, a + 1, MinOf(b, Len(s)))

\* round(n / 2): Python rounds halves to the even neighbour
RoundHalf(n) ==
    IF n % 2 = 0 THEN n \div 2
    ELSE IF ((n - 1) \div 2) % 2 = 0 THEN (n - 1) \div 2 ELSE (n + 1) \div 2

-----------------------------------------------------------------------------
(* CoordinateValidator *)

\* the test of the WGS84 range alone (strict_korea = False)
IsValidWgs84(longitude, latitude) ==
    /\ -180 <= longitude /\ longitude <= 180
    /\ -90 * DegLen <= latitude /\ latitude <= 90 * DegLen

is_valid_coordinate(longitude, latitude) ==
    /\ -180 <= longitude /\ longitude <= 180
    /\ -90 * DegLen <= latitude /\ latitude <= 90 * DegLen
    /\ KOREA_MIN_LONGITUDE <= longitude /\ longitude <= KOREA_MAX_LONGITUDE
    /\ KOREA_MIN_LATITUDE * DegLen <= latitude
    /\ latitude <= KOREA_MAX_LATITUDE * DegLen

\* the (lon, lat) pairs that pass, in the order given
validate_coordinate_list(coordinates) ==
    SelectSeq(coordinates, LAMBDA c : is_valid_coordinate(c[1], c[2]))

\* haversine distance of two points of one meridian, in metres
calculate_distance(c1, c2) == Abs(c1[2] - c2[2])

Coord(wp) == <<wp.x, wp.y>>
Dist(a, b) == calculate_distance(Coord(a), Coord(b))


-----------------------------------------------------------------------------
(* GlobalRouteOptimizer: cluster building *)

NewCluster(cid, wps) ==
    [id |-> cid, waypoints |-> wps, start_point |-> wps[1], end_point |-> Last(wps)]

\* road_matrix[(i, j)] of _estimate_road_distances, in tenths of a metre
\* (straight distance times the road factor 1.3); i, j are 1-based here
RoadMatrix(reps, i, j) == IF i = j THEN 0 ELSE Dist(reps[i], reps[j]) * 13

\* min over "for centroid_idx in centroids"
MinToCentroids(reps, cand, centroids) ==
    MinOfSet({RoadMatrix(reps, cand, centroids[k]) : k \in 1..Len(centroids)})

\* the inner loop "for candidate_idx in remaining": the first candidate whose
\* distance to the centroids is largest (remaining[0] when all are 0)
FarthestFrom(reps, remaining, centroids) ==
    remaining[FirstMin(Len(remaining),
                       LAMBDA k : 0 - MinToCentroids(reps, remaining[k], centroids))]

\* farthest-first seeding: the first centroid is representative 0
RECURSIVE SeedCentroids(_, _, _, _)
SeedCentroids(reps, centroids, remaining, todo) ==
    IF todo = 0 \/ remaining = <<>> THEN centroids
    ELSE LET f == FarthestFrom(reps, remaining, centroids)
         IN SeedCentroids(reps, Append(centroids, f), RemoveFirst(remaining, f), todo - 1)

\* index (1-based) of the closest centroid; the first of equally close ones
ClosestCentroid(reps, rep_idx, centroids) ==
    FirstMin(Len(centroids), LAMBDA k : RoadMatrix(reps, rep_idx, centroids[k]))

NonEmpty(ss) == SelectSeq(ss, LAMBDA c : c # <<>>)

_cluster_representatives(representatives, num) ==
    IF num >= Len(representatives)
    THEN [k \in 1..Len(representatives) |-> <<representatives[k]>>]
    ELSE LET n == Len(representatives)
             centroids == List(SeedCentroids(representatives, <<1>>,
                                             [k \in 1..(n - 1) |-> k + 1], num - 1))
             owner == List([r \in 1..n |->
                               ClosestCentroid(representatives, r, centroids)])
             clusters == List([c \in 1..num |-> Members(representatives, owner, c)])
         IN NonEmpty(clusters)

\* distance of a waypoint to the closest representative of one cluster
ClusterMinDistance(wp, reps) ==
    MinOfSet({Dist(wp, reps[k]) : k \in 1..Len(reps)})

ClosestRepCluster(wp, rep_clusters) ==
    FirstMin(Len(rep_clusters), LAMBDA k : ClusterMinDistance(wp, rep_clusters[k]))

\* min(unvisited, key = distance to the current point): the lowest index
\* among equally near points
NearestIdx(wps, cur, unvisited) ==
    LET d == List([k \in 1..Len(wps) |-> Dist(wps[cur], wps[k])])
        m == MinOfSet({d[k] : k \in unvisited})
    IN CHOOSE k \in unvisited : d[k] = m /\ \A j \in unvisited : d[j] = m => k <= j

\* at most "passes" passes of the "while unvisited" loop, from the loop state
\* st = [current_idx, unvisited, route]
RECURSIVE TspPasses(_, _, _)
TspPasses(wps, st, passes) ==
    IF passes = 0 \/ st.unvisited = {} THEN st
    ELSE LET nearest_idx == NearestIdx(wps, st.current_idx, st.unvisited)
         IN TspPasses(wps,
                      [current_idx |-> nearest_idx,
                       unvisited |-> st.unvisited \ {nearest_idx},
                       route |-> Append(st.route, wps[nearest_idx])],
                      passes - 1)

\* the whole loop, evaluated ten passes at a time
RECURSIVE TspWalk(_, _)
TspWalk(wps, st) ==
    IF st.unvisited = {} THEN st.route ELSE TspWalk(wps, TspPasses(wps, st, 10))

_traveling_salesman_approximation(wps, start_idx) ==
    IF Len(wps) <= 2 THEN wps
    ELSE LET s == IF start_idx < Len(wps) THEN start_idx + 1 ELSE 1
         IN TspWalk(wps, [current_idx |-> s, unvisited |-> (1..Len(wps)) \ {s},
                          route |-> <<wps[s]>>])

_split_large_cluster(large_cluster) ==
    LET waypoints == large_cluster.waypoints
        num_sub_clusters == CeilDiv(Len(waypoints), MAX_WAYPOINTS_PER_BATCH)
        ordered_waypoints == List(_traveling_salesman_approximation(waypoints, 0))
        waypoints_per_cluster == Len(ordered_waypoints) \div num_sub_clusters
        sub(i) == LET start_idx == i * waypoints_per_cluster
                      end_idx == IF i = num_sub_clusters - 1
                                 THEN Len(ordered_waypoints)
                                 ELSE start_idx + waypoints_per_cluster
                  IN Slice(ordered_waypoints, start_idx, end_idx)
        subs == [k \in 1..num_sub_clusters |->
                    IF sub(k - 1) = <<>> THEN <<>>
                    ELSE <<NewCluster(large_cluster.id * 100 + (k - 1), sub(k - 1))>>]
    IN Flatten(subs)

_balance_cluster_sizes(clusters) ==
    Flatten([k \in 1..Len(clusters) |->
                IF Len(clusters[k].waypoints) > MAX_WAYPOINTS_PER_BATCH
                THEN _split_large_cluster(clusters[k])
                ELSE <<clusters[k]>>])

_road_aware_clustering(waypoints, num) ==
    LET rep_clusters == List(_cluster_representatives(waypoints, num))
        owner == List([w \in 1..Len(waypoints) |->
                          ClosestRepCluster(waypoints[w], rep_clusters)])
        clusters == [c \in 1..Len(rep_clusters) |->
                        LET cluster_waypoints == Members(waypoints, owner, c)
                        IN IF cluster_waypoints = <<>> THEN <<>>
                           ELSE <<NewCluster(c - 1, cluster_waypoints)>>]
    IN _balance_cluster_sizes(Flatten(clusters))

-----------------------------------------------------------------------------
(* GlobalRouteOptimizer: cluster sequencing and endpoints *)

\* mean x, mean y of the members; exact on the grid
_get_cluster_center(cluster) ==
    LET n == Len(cluster.waypoints)
    IN <<SumSeq([k \in 1..n |-> cluster.waypoints[k].x]) \div n,
         SumSeq([k \in 1..n |-> cluster.waypoints[k].y]) \div n>>

\* cluster_distances of _optimize_cluster_sequence: the distances of the
\* centers, computed once, as a matrix with 1-based indices
ClusterDistances(clusters) ==
    LET centers == List([k \in 1..Len(clusters) |-> _get_cluster_center(clusters[k])])
    IN List([i \in 1..Len(clusters) |->
                List([j \in 1..Len(clusters) |->
                         calculate_distance(centers[i], centers[j])])])

\* distances.get((i, j))
CenterDist(distances, i, j) == distances[i][j]

_calculate_cluster_sequence_distance(distances, sequence) ==
    SumSeq([k \in 1..(Len(sequence) - 1) |->
               CenterDist(distances, sequence[k], sequence[k + 1])])

\* min(unvisited, key = distance from the current cluster)
NearestCluster(distances, cur, unvisited) ==
    LET d == distances[cur]
        m == MinOfSet({d[k] : k \in unvisited})
    IN CHOOSE k \in unvisited : d[k] = m /\ \A j \in unvisited : d[j] = m => k <= j

RECURSIVE ClusterWalk(_, _, _)
ClusterWalk(distances, cur, unvisited) ==
    IF unvisited = {} THEN <<>>
    ELSE LET nx == NearestCluster(distances, cur, unvisited)
         IN <<nx>> \o ClusterWalk(distances, nx, unvisited \ {nx})

_cluster_tsp_approximation(distances, start_idx) ==
    <<start_idx>> \o ClusterWalk(distances, start_idx, (1..Len(distances)) \ {start_idx})

\* "for start_cluster in range(len(clusters))": keeps the first strictly shorter tour
RECURSIVE BestSequence(_, _, _, _)
BestSequence(distances, start_cluster, best_sequence, best_total) ==
    IF start_cluster > Len(distances) THEN best_sequence
    ELSE LET sequence == List(_cluster_tsp_approximation(distances, start_cluster))
             total == _calculate_cluster_sequence_distance(distances, sequence)
         IN IF total < best_total
            THEN BestSequence(distances, start_cluster + 1, sequence, total)
            ELSE BestSequence(distances, start_cluster + 1, best_sequence, best_total)

_optimize_cluster_sequence(clusters) ==
    IF Len(clusters) <= 2 THEN clusters
    ELSE LET identity == [k \in 1..Len(clusters) |-> k]
             cluster_distances == ClusterDistances(clusters)
             best == BestSequence(cluster_distances, 1, identity,
                         _calculate_cluster_sequence_distance(cluster_distances, identity))
         IN [k \in 1..Len(clusters) |-> clusters[best[k]]]

\* a search that returns a point of the target cluster
ClosestPointOfTarget(points, target_cluster) == target_cluster.waypoints[1]

_find_closest_point_to_cluster(points, target_cluster) ==
    LET target_center == _get_cluster_center(target_cluster)
    IN points[FirstMin(Len(points),
                       LAMBDA k : calculate_distance(Coord(points[k]), target_center))]

_optimize_cluster_connections(cs) ==
    [i \in 1..Len(cs) |->
        IF i = 1
        THEN IF Len(cs) > 1
             THEN [cs[i] EXCEPT !.end_point =
                      _find_closest_point_to_cluster(cs[i].waypoints, cs[2])]
             ELSE [cs[i] EXCEPT !.start_point = cs[i].waypoints[1],
                                !.end_point = Last(cs[i].waypoints)]
        ELSE IF i = Len(cs)
        THEN [cs[i] EXCEPT !.start_point =
                 _find_closest_point_to_cluster(cs[i].waypoints, cs[i - 1])]
        ELSE [cs[i] EXCEPT !.start_point =
                 _find_closest_point_to_cluster(cs[i].waypoints, cs[i - 1]),
                           !.end_point =
                 _find_closest_point_to_cluster(cs[i].waypoints, cs[i + 1])]]

\* the double loop over (start_candidate, end_candidate): the first closest pair
ClosestPair(firsts, lasts) ==
    LET k == FirstMin(Len(firsts) * Len(lasts),
                      LAMBDA q : Dist(firsts[((q - 1) \div Len(lasts)) + 1],
                                      lasts[((q - 1) % Len(lasts)) + 1]))
    IN <<firsts[((k - 1) \div Len(lasts)) + 1], lasts[((k - 1) % Len(lasts)) + 1]>>

_optimize_global_start_end(cs) ==
    IF Len(cs) <= 1 THEN cs
    ELSE LET n == Len(cs)
             pair == ClosestPair(cs[1].waypoints, cs[n].waypoints)
         IN [cs EXCEPT ![1].start_point = pair[1], ![n].end_point = pair[2]]

\* steps 1 and 2 of _test_real_api_performance (and of the fallback)
BuildPlan(waypoints, num) ==
    _optimize_global_start_end(
        _optimize_cluster_connections(
            _optimize_cluster_sequence(_road_aware_clustering(waypoints, num))))

-----------------------------------------------------------------------------
(* GlobalRouteOptimizer: internal order of a cluster *)

\* min(unvisited, key = distance to current): the first of the nearest
NearestOf(unvisited, current) ==
    unvisited[FirstMin(Len(unvisited), LAMBDA k : Dist(current, unvisited[k]))]

RECURSIVE FixedWalk(_, _)
FixedWalk(unvisited, current) ==
    IF unvisited = <<>> THEN <<>>
    ELSE LET nearest == NearestOf(unvisited, current)
         IN <<nearest>> \o FixedWalk(RemoveFirst(unvisited, nearest), nearest)

_traveling_salesman_with_fixed_endpoints(start_point, middle_waypoints, end_point) ==
    IF middle_waypoints = <<>> THEN <<>>
    ELSE IF Len(middle_waypoints) = 1 THEN middle_waypoints
    ELSE FixedWalk(middle_waypoints, start_point)

_optimize_cluster_internal_order(cluster) ==
    LET waypoints == cluster.waypoints
        start_id == cluster.start_point.id
        end_id == cluster.end_point.id
        middle_waypoints ==
            SelectSeq(waypoints, LAMBDA wp : wp.id # start_id /\ wp.id # end_id)
        optimized_middle == _traveling_salesman_with_fixed_endpoints(
                                cluster.start_point, middle_waypoints, cluster.end_point)
        result == IF start_id = end_id
                  THEN <<cluster.start_point>> \o optimized_middle
                  ELSE <<cluster.start_point>> \o optimized_middle \o <<cluster.end_point>>
    IN IF Len(waypoints) <= 2 THEN waypoints
       ELSE IF Len(waypoints) = 3 THEN waypoints
       ELSE IF middle_waypoints = <<>> THEN <<cluster.start_point, cluster.end_point>>
       ELSE IF Len(result) # Len(waypoints) THEN waypoints
       ELSE result

\* _optimize_single_cluster_global: the route with the closest start and end
RECURSIVE BestSingleRoute(_, _, _, _)
BestSingleRoute(waypoints, attempt, best_route, min_start_end_distance) ==
    IF attempt >= MinOf(10, Len(waypoints)) THEN best_route
    ELSE LET route == _traveling_salesman_approximation(waypoints, attempt)
             d == Dist(route[1], Last(route))
         IN IF d < min_start_end_distance
            THEN BestSingleRoute(waypoints, attempt + 1, route, d)
            ELSE BestSingleRoute(waypoints, attempt + 1, best_route, min_start_end_distance)

_optimize_single_cluster_global(waypoints) ==
    IF Len(waypoints) <= 2 THEN waypoints
    ELSE BestSingleRoute(waypoints, 0, waypoints, Inf)

-----------------------------------------------------------------------------
(* The directions provider: what one HTTP exchange can give back *)

\* a 200 answer with one route, result_code 0 and a summary of duration
\* (milliseconds) and distance (metres); sections is the list of the sections
\* of the route, each with its own distance and duration
HttpOk(duration, distance) ==
    [kind |-> "http", status |-> 200, routes |-> TRUE, result_code |-> 0,
     summary |-> TRUE, duration |-> duration, distance |-> distance,
     sections |-> <<>>]
\* a 200 answer whose route has one section per leg
HttpRoute(duration, distance, sections) ==
    [HttpOk(duration, distance) EXCEPT !.sections = sections]
\* a 200 answer whose route carries a non-zero result_code
HttpCode(code) == [HttpOk(0, 0) EXCEPT !.result_code = code]
\* a 200 answer whose route has neither "summary" nor "sections"
HttpNoSummary == [HttpOk(0, 0) EXCEPT !.summary = FALSE]
\* a 200 answer without "routes", or with an empty list of routes
HttpNoRoutes == [HttpOk(0, 0) EXCEPT !.routes = FALSE]
\* an answer with another status
HttpStatus(status) == [HttpOk(0, 0) EXCEPT !.status = status, !.routes = FALSE]
\* requests.exceptions.Timeout
HttpTimeout == [HttpOk(0, 0) EXCEPT !.kind = "timeout", !.routes = FALSE]

-----------------------------------------------------------------------------
(* GlobalRouteOptimizer._call_kakao_api_with_retry *)

CallAgain(sleep) == [next |-> "continue", sleep |-> sleep, duration |-> 0, distance |-> 0]
CallDone(duration, distance) ==
    [next |-> "return", sleep |-> 0, duration |-> duration, distance |-> distance]
CallRaise == [next |-> "raise", sleep |-> 0, duration |-> 0, distance |-> 0]

\* "if attempt < max_retries - 1: time.sleep(2 ** attempt)" at the foot of the loop
Backoff(attempt) == CallAgain(IF attempt < max_retries - 1 THEN 2 ^ attempt ELSE 0)

\* calculated_speed > 800 km/h, for a distance in metres and a duration in ms
ExtremeSpeed(duration, distance) ==
    duration > 0 /\ distance > 0 /\ distance * 9 > duration * 2

\* a handler of result_code 104 that goes on with the next attempt
NearbyRetry == CallAgain(0)

\* result_code 104 (the points lie within 5 m): 30 s and 10 m are returned
NearbyCluster == CallDone(30 * 1000, 10)

\* one pass of "for attempt in range(max_retries)"
ClusterAttempt(response, attempt) ==
    IF response.kind = "timeout" THEN Backoff(attempt)
    ELSE IF response.status = 200
    THEN IF ~response.routes THEN Backoff(attempt)
         ELSE IF response.result_code = 104 THEN NearbyCluster
         ELSE IF response.result_code # 0 THEN CallAgain(0)
         ELSE IF ~response.summary THEN CallAgain(0)
         ELSE LET is_critical_error ==
                      \/ response.duration <= 0
                      \/ response.distance > 1000 * 1000
                      \/ ExtremeSpeed(response.duration, response.distance) /\ attempt = 0
              IN IF is_critical_error /\ attempt = 0 THEN CallAgain(2)
                 ELSE CallDone(response.duration, response.distance)
    ELSE IF response.status = 429 THEN CallAgain(5)
    ELSE Backoff(attempt)

\* the whole loop over the answers the provider gives to the successive attempts
RECURSIVE ClusterLoop(_, _)
ClusterLoop(responses, attempt) ==
    IF attempt >= max_retries THEN CallRaise
    ELSE LET a == ClusterAttempt(responses[attempt + 1], attempt)
         IN IF a.next = "continue" THEN ClusterLoop(responses, attempt + 1) ELSE a

\* the internal order is computed first and stored in the cluster
\* the body of the directions request: origin and destination are the entry
\* and the exit of the cluster, the intermediate waypoints are the internal
\* order without its first and its last element
api_data(cluster) ==
    LET cluster_waypoints == _optimize_cluster_internal_order(cluster)
    IN [origin |-> cluster.start_point,
        destination |-> cluster.end_point,
        waypoints |-> IF Len(cluster_waypoints) > 2
                      THEN SubSeq(cluster_waypoints, 2, Len(cluster_waypoints) - 1)
                      ELSE <<>>]

_call_kakao_api_with_retry(cluster, responses) ==
    [waypoints |-> _optimize_cluster_internal_order(cluster),
     request |-> api_data(cluster),
     answer |-> ClusterLoop(responses, 0)]

-----------------------------------------------------------------------------
(* GlobalRouteOptimizer._calculate_cluster_connection_time *)

\* one pass of "for attempt in range(3)"
HopAttempt(response, attempt) ==
    IF response.kind = "timeout" THEN CallAgain(IF attempt < 2 THEN 1 ELSE 0)
    ELSE IF response.status = 200
    THEN IF ~response.routes THEN CallRaise
         ELSE IF response.result_code = 104 THEN CallDone(500, 10)
         ELSE IF response.result_code # 0 THEN CallAgain(0)
         ELSE IF ~response.summary THEN CallAgain(0)
         ELSE CallDone(response.duration, response.distance)
    ELSE IF response.status = 429 THEN CallAgain(2 ^ attempt)
    ELSE CallAgain(0)

\* the estimate after the loop: straight distance times 1.3, at 30 km/h
HopEstimate(straight_distance_m) ==
    [next |-> "estimate", sleep |-> 0,
     duration |-> straight_distance_m * 156,
     distance |-> (straight_distance_m * 13) \div 10]

RECURSIVE HopLoop(_, _, _)
HopLoop(responses, attempt, straight_distance_m) ==
    IF attempt >= 3 THEN HopEstimate(straight_distance_m)
    ELSE LET a == HopAttempt(responses[attempt + 1], attempt)
         IN IF a.next = "continue"
            THEN HopLoop(responses, attempt + 1, straight_distance_m)
            ELSE a

_calculate_cluster_connection_time(from_cluster, to_cluster, responses) ==
    HopLoop(responses, 0, Dist(from_cluster.end_point, to_cluster.start_point))

-----------------------------------------------------------------------------
(* KakaoRouteApiClient.get_optimized_route: one exchange, no retry *)

get_optimized_route(response) ==
    IF response.kind = "timeout" THEN CallRaise
    ELSE IF response.status # 200 THEN CallRaise
    ELSE IF ~response.routes THEN CallRaise
    ELSE IF response.result_code # 0 THEN CallRaise
    ELSE IF ~response.summary THEN CallDone(0, 0)
    ELSE CallDone(response.duration, response.distance)

\* KakaoRouteApiClient.extract_route_details: one entry per section of the
\* first route
extract_route_details(api_response) ==
    IF ~api_response.routes THEN <<>>
    ELSE [i \in 1..Len(api_response.sections) |->
             [distance |-> api_response.sections[i].distance,
              duration |-> api_response.sections[i].duration]]

-----------------------------------------------------------------------------
(* GlobalRouteOptimizer: the sweep over the number of clusters *)

\* max(2, round(total_waypoints / 2))
max_clusters(total_waypoints) == MaxOf(2, RoundHalf(total_waypoints))

\* straight distance from the first point of the first cluster to the last
\* point of the last cluster of a measured scenario
GlobalDistance(clusters) ==
    IF Len(clusters) > 1 THEN Dist(clusters[1][1], Last(Last(clusters))) ELSE Inf

\* the comparison of a measured scenario with the best so far
IsBetter(best, actual_time, clusters) ==
    \/ actual_time < best.time
    \/ /\ Abs(actual_time - best.time) < 6 * 1000
       /\ GlobalDistance(clusters) < best.distance

UpdateBest(best, actual_time, actual_distance, clusters) ==
    IF IsBetter(best, actual_time, clusters)
    THEN [performance |-> clusters, time |-> actual_time, distance |-> actual_distance]
    ELSE best

\* a handler that forgets the best so far
ForgetBest(best) == [performance |-> <<>>, time |-> Inf, distance |-> Inf]

\* "except Exception: continue": the best so far is not touched
KeepBest(best) == best

\* straight length of the route through the points of one cluster
PathLength(wps) == SumSeq([k \in 1..(Len(wps) - 1) |-> Dist(wps[k], wps[k + 1])])

_optimize_multi_cluster_fallback(waypoints) ==
    LET final == BuildPlan(waypoints, CeilDiv(Len(waypoints), MAX_WAYPOINTS_PER_BATCH))
        inside == SumSeq([k \in 1..Len(final) |-> PathLength(final[k].waypoints)])
        between == SumSeq([k \in 1..(Len(final) - 1) |->
                              Dist(final[k].end_point, final[k + 1].start_point)])
    IN [clusters |-> [k \in 1..Len(final) |-> final[k].waypoints],
        total_duration_minutes |-> (inside + between) * 180,
        total_distance_km |-> inside + between,
        cluster_count |-> Len(final)]

\* the dictionary returned after the sweep
SweepResult(best, waypoints) ==
    IF best.performance = <<>> THEN _optimize_multi_cluster_fallback(waypoints)
    ELSE [clusters |-> best.performance,
          total_duration_minutes |-> best.time,
          total_distance_km |-> best.distance,
          cluster_count |-> Len(best.performance)]

-----------------------------------------------------------------------------
(* RouteOptimizer *)

_validate_and_filter_waypoints(rows) ==
    LET ok == SelectSeq(rows, LAMBDA order :
                            is_valid_coordinate(order.longitude, order.latitude))
    IN [k \in 1..Len(ok) |-> [id |-> ok[k].id, x |-> ok[k].longitude, y |-> ok[k].latitude]]

\* one entry of optimized_waypoints
Assembled(wp, distance_from_prev, duration_from_prev, cumulative_distance, cumulative_duration) ==
    [order_id |-> wp.id, longitude |-> wp.x, latitude |-> wp.y,
     distance_from_prev |-> distance_from_prev,
     duration_from_prev |-> duration_from_prev,
     cumulative_distance |-> cumulative_distance,
     cumulative_duration |-> cumulative_duration]

NoSection == [distance |-> 0, duration |-> 0]

\* "route_details[i] if i < len(route_details) else {}", for the i-th
\* intermediate point (1-based)
SectionOf(route_details, i) ==
    IF i <= Len(route_details) THEN route_details[i] ELSE NoSection

\* "route_details[-1] if route_details else {}"
FinalSection(route_details) ==
    IF route_details # <<>> THEN Last(route_details) ELSE NoSection

\* origin, the intermediate points in the order given, destination; the
\* cumulative values start at 0 in every batch
_build_optimized_waypoint_sequence(api_response, origin, destination, waypoints) ==
    LET route_details == extract_route_details(api_response)
        cum_distance(k) == SumSeq([i \in 1..k |-> SectionOf(route_details, i).distance])
        cum_duration(k) == SumSeq([i \in 1..k |-> SectionOf(route_details, i).duration])
        final_section == FinalSection(route_details)
    IN <<Assembled(origin, 0, 0, 0, 0)>>
        \o [k \in 1..Len(waypoints) |->
               Assembled(waypoints[k],
                         SectionOf(route_details, k).distance,
                         SectionOf(route_details, k).duration,
                         cum_distance(k), cum_duration(k))]
        \o <<Assembled(destination, final_section.distance, final_section.duration,
                       cum_distance(Len(waypoints)) + final_section.distance,
                       cum_duration(Len(waypoints)) + final_section.duration)>>

RouteOptimizationResult(batch_id, success, optimized_waypoints, total_distance, total_duration, total_waypoints) ==
    [batch_id |-> batch_id, success |-> success,
     optimized_waypoints |-> optimized_waypoints,
     total_distance |-> total_distance, total_duration |-> total_duration,
     total_waypoints |-> total_waypoints,
     cluster_connection_distance |-> 0, cluster_connection_duration |-> 0]

_optimize_single_batch(batch_idx, waypoints, response) ==
    IF Len(waypoints) = 1
    THEN RouteOptimizationResult(batch_idx, TRUE,
                                 <<Assembled(waypoints[1], 50, 120 * 1000, 50, 120 * 1000)>>,
                                 50, 120 * 1000, 1)
    ELSE IF Len(waypoints) < 1
    THEN RouteOptimizationResult(batch_idx, FALSE, <<>>, 0, 0, Len(waypoints))
    ELSE LET intermediate_waypoints ==
                 IF Len(waypoints) > 2 THEN SubSeq(waypoints, 2, Len(waypoints) - 1)
                 ELSE <<>>
             api_response == IF Len(intermediate_waypoints) > 30 THEN CallRaise
                             ELSE get_optimized_route(response)
         IN IF api_response.next = "raise"
            THEN RouteOptimizationResult(batch_idx, FALSE, <<>>, 0, 0, Len(waypoints))
            ELSE RouteOptimizationResult(
                     batch_idx, TRUE,
                     _build_optimized_waypoint_sequence(
                         response, waypoints[1], Last(waypoints),
                         intermediate_waypoints),
                     api_response.distance, api_response.duration, Len(waypoints))

\* prev_batch_last_waypoint: the last point of the latest result that has points
PrevBatchLast(rs) ==
    LET with == SelectSeq(rs, LAMBDA r : r.optimized_waypoints # <<>>)
    IN IF with = <<>> THEN <<>> ELSE <<Last(Last(with).optimized_waypoints)>>

\* the connection distance from the previous batch, set on the new result
WithConnection(rs, result) ==
    IF rs # <<>> /\ PrevBatchLast(rs) # <<>> /\ result.optimized_waypoints # <<>>
    THEN [result EXCEPT !.cluster_connection_distance =
             calculate_distance(
                 <<PrevBatchLast(rs)[1].longitude, PrevBatchLast(rs)[1].latitude>>,
                 <<result.optimized_waypoints[1].longitude,
                   result.optimized_waypoints[1].latitude>>)]
    ELSE result

\* the totals of the global optimizer overwrite those of the first result
ApplyTotals(rs, g) ==
    IF rs # <<>>
    THEN [rs EXCEPT ![1].total_distance = g.total_distance_km,
                    ![1].total_duration = g.total_duration_minutes]
    ELSE rs

-----------------------------------------------------------------------------
(* ExcelHandler.save_optimization_results: the rows of the route sheet *)

\* one row; distances are whole metres and durations whole milliseconds, so
\* int() leaves the cumulative values as they are
RouteRow(waypoint, batch_number, distance_from_prev, duration_from_prev, cumulative_distance, cumulative_duration) ==
    [batch_number |-> batch_number, order_id |-> waypoint.order_id,
     distance_from_prev |-> distance_from_prev,
     duration_from_prev |-> duration_from_prev,
     cumulative_distance |-> cumulative_distance,
     cumulative_duration |-> cumulative_duration]

\* the prior leg of the waypoint at idx (0-based): the connection of the
\* batch for the first point of a later batch, 0 for the very first point,
\* else the leg stored with the waypoint
PriorLeg(result, batch_number, idx) ==
    IF idx = 0 /\ batch_number > 1
    THEN [distance |-> result.cluster_connection_distance,
          duration |-> result.cluster_connection_duration]
    ELSE IF idx = 0 THEN [distance |-> 0, duration |-> 0]
    ELSE [distance |-> result.optimized_waypoints[idx + 1].distance_from_prev,
          duration |-> result.optimized_waypoints[idx + 1].duration_from_prev]

\* "for idx, waypoint in enumerate(result.optimized_waypoints)", from idx on
RECURSIVE FormatWaypoints(_, _, _, _, _, _)
FormatWaypoints(result, batch_number, idx, current_cumulative_distance, current_cumulative_duration, formatted_data) ==
    IF idx >= Len(result.optimized_waypoints)
    THEN [rows |-> formatted_data, distance |-> current_cumulative_distance,
          duration |-> current_cumulative_duration]
    ELSE LET leg == PriorLeg(result, batch_number, idx)
             counted == idx > 0 \/ batch_number > 1
             d == current_cumulative_distance + (IF counted THEN leg.distance ELSE 0)
             t == current_cumulative_duration + (IF counted THEN leg.duration ELSE 0)
         IN FormatWaypoints(result, batch_number, idx + 1, d, t,
                Append(formatted_data,
                       RouteRow(result.optimized_waypoints[idx + 1], batch_number,
                                leg.distance, leg.duration, d, t)))

\* a writer that starts every batch from zero
FormatFromZero(result, batch_number, start_cumulative_distance, start_cumulative_duration) ==
    FormatWaypoints(result, batch_number, 0, 0, 0, <<>>)

_format_optimization_result_with_global_cumulative(result, batch_number, start_cumulative_distance, start_cumulative_duration) ==
    FormatWaypoints(result, batch_number, 0, start_cumulative_distance,
                    start_cumulative_duration, <<>>)

\* "for idx, result in enumerate(optimization_results)", from idx on: only
\* the results with success give rows
RECURSIVE SaveBatches(_, _, _, _, _)
SaveBatches(optimization_results, idx, global_cumulative_distance, global_cumulative_duration, all_routes_data) ==
    IF idx >= Len(optimization_results) THEN all_routes_data
    ELSE LET result == optimization_results[idx + 1]
             batch == _format_optimization_result_with_global_cumulative(
                          result, idx + 1, global_cumulative_distance,
                          global_cumulative_duration)
         IN IF result.success
            THEN SaveBatches(optimization_results, idx + 1, batch.distance,
                             batch.duration, all_routes_data \o batch.rows)
            ELSE SaveBatches(optimization_results, idx + 1,
                             global_cumulative_distance,
                             global_cumulative_duration, all_routes_data)

\* all_routes_data of save_optimization_results
save_optimization_results(optimization_results) ==
    List(SaveBatches(optimization_results, 0, 0, 0, <<>>))

-----------------------------------------------------------------------------
(* Inputs of a run and answers of the provider *)

\* grid position of the k-th valid row in each family of layouts
Position(layout, k) ==
    CASE layout = "line" -> k - 1
      [] layout = "far_first" -> IF k = 1 THEN 0 ELSE 7 + (k % 2)
      [] layout = "two_groups" -> IF k % 2 = 1 THEN k \div 2 ELSE 6 + (k \div 2)
      [] layout = "pairs" -> 3 * ((k - 1) \div 2)
      [] layout = "spread" -> IF k = 1 THEN 0 ELSE IF k = 6 THEN 9 ELSE k + 1
      [] layout = "turned" -> CASE k = 1 -> 0 [] k = 2 -> 5 [] k = 3 -> 3
                                   [] k = 4 -> 4 [] k = 5 -> 9 [] OTHER -> 10
      [] layout = "lump" -> IF k <= MAX_WAYPOINTS_PER_BATCH + 1 THEN 0
                            ELSE k - (MAX_WAYPOINTS_PER_BATCH + 1)
      [] OTHER -> 0
Layouts == {"line", "far_first", "two_groups", "pairs", "spread", "turned", "one_place"}

\* a row with coordinates outside the service region
InvalidRow(id) == [id |-> id, longitude |-> 0, latitude |-> 0]

\* n valid rows of a layout; ids 1..n, or the missing id (0 stands for '')
Rows(layout, n, with_ids, with_invalid) ==
    (IF with_invalid THEN <<InvalidRow(n + 1)>> ELSE <<>>)
    \o [k \in 1..n |-> [id |-> IF with_ids THEN k ELSE 0,
                        longitude |-> Lon0,
                        latitude |-> Lat0 + Position(layout, k) * GridStep]]

\* answers to the attempts of a cluster call, of a hop call, of a batch call
ClusterAnswers == {HttpOk(60 * 1000, 1000), HttpOk(125 * 1000, 3000), HttpStatus(500)}
HopAnswers == {HttpOk(3 * 1000, 50), HttpStatus(500), HttpNoRoutes}
\* the sections of a route of so many legs
Sections(legs) == [k \in 1..legs |-> [distance |-> 10 * k, duration |-> 2000 * k]]
BatchAnswers(legs) ==
    {HttpRoute(20 * 1000, 100, Sections(legs)), HttpStatus(500)}

-----------------------------------------------------------------------------
(* The run of RouteOptimizer.optimize_route *)

NoCall == [kind |-> "none"]
NoBig == [pc |-> "none"]
NoBest == [performance |-> <<>>, time |-> Inf, distance |-> Inf]
Best == [performance |-> best_performance, time |-> best_actual_time,
         distance |-> best_global_distance]

\* the locals of one scenario, outside a scenario
ScenarioIdle ==
    /\ final_clusters' = <<>>
    /\ ci' = 0
    /\ total_actual_time' = 0
    /\ total_actual_distance' = 0
    /\ result_clusters' = <<>>
    /\ hops' = <<>>

SweepIdle ==
    /\ num_clusters' = 0
    /\ best_performance' = <<>>
    /\ best_actual_time' = Inf
    /\ best_global_distance' = Inf
    /\ scenarios' = <<>>

Init ==
    /\ pc = "start"
    /\ \E layout \in Layouts, n \in 0..MaxN, with_ids \in BOOLEAN, with_invalid \in BOOLEAN :
           geocoded_data = Rows(layout, n, with_ids, with_invalid)
    /\ valid_waypoints = <<>>
    /\ num_clusters = 0
    /\ best_performance = <<>>
    /\ best_actual_time = Inf
    /\ best_global_distance = Inf
    /\ final_clusters = <<>>
    /\ ci = 0
    /\ total_actual_time = 0
    /\ total_actual_distance = 0
    /\ result_clusters = <<>>
    /\ global_result = <<>>
    /\ results = <<>>
    /\ scenarios = <<>>
    /\ hops = <<>>
    /\ call = NoCall
    /\ big = NoBig

\* optimize_route, step 1
Validate ==
    /\ pc = "start"
    /\ valid_waypoints' = _validate_and_filter_waypoints(geocoded_data)
    /\ pc' = IF valid_waypoints' = <<>> THEN "done" ELSE "global"
    /\ UNCHANGED <<geocoded_data, num_clusters, best_performance, best_actual_time,
                   best_global_distance, final_clusters, ci, total_actual_time,
                   total_actual_distance, result_clusters, global_result, results,
                   scenarios, hops, call, big>>

\* optimize_global_clustering: at most 3 points are ordered directly, more
\* start the sweep
optimize_global_clustering ==
    /\ pc = "global"
    /\ IF Len(valid_waypoints) <= 3
       THEN /\ global_result' =
                   [clusters |-> <<_optimize_single_cluster_global(valid_waypoints)>>,
                    total_duration_minutes |-> 0,
                    total_distance_km |-> 0,
                    cluster_count |-> 1]
            /\ pc' = "returned"
            /\ UNCHANGED num_clusters
       ELSE /\ num_clusters' = 2
            /\ pc' = "sweep"
            /\ UNCHANGED global_result
    /\ UNCHANGED <<geocoded_data, valid_waypoints, best_performance, best_actual_time,
                   best_global_distance, final_clusters, ci, total_actual_time,
                   total_actual_distance, result_clusters, results, scenarios, hops,
                   call, big>>

\* _test_real_api_performance, steps 1 and 2: the plan of the scenario
BuildScenario ==
    /\ pc = "sweep"
    /\ num_clusters <= max_clusters(Len(valid_waypoints))
    /\ final_clusters' = BuildPlan(valid_waypoints, num_clusters)
    /\ ci' = 1
    /\ pc' = "cluster"
    /\ UNCHANGED <<geocoded_data, valid_waypoints, num_clusters, best_performance,
                   best_actual_time, best_global_distance, total_actual_time,
                   total_actual_distance, result_clusters, global_result, results,
                   scenarios, hops, call, big>>

\* the record kept of a finished scenario
Scenario(failure, selected) ==
    [num_clusters |-> num_clusters, ok |-> failure = "none", failure |-> failure,
     selected |-> selected,
     time |-> total_actual_time, distance |-> total_actual_distance,
     clusters |-> result_clusters, planned |-> Len(final_clusters),
     hops |-> Len(hops), connections |-> hops,
     estimated |-> \E h \in 1..Len(hops) : hops[h].kind = "estimate"]

\* the exception of a call leaves _test_real_api_performance and is caught by
\* the loop of the sweep, which goes on with the next number of clusters
ScenarioFails(failure) ==
    /\ scenarios' = Append(scenarios, Scenario(failure, FALSE))
    /\ best_performance' = KeepBest(Best).performance
    /\ best_actual_time' = KeepBest(Best).time
    /\ best_global_distance' = KeepBest(Best).distance
    /\ num_clusters' = num_clusters + 1
    /\ pc' = "sweep"
    /\ ScenarioIdle

\* _test_real_api_performance, step 3: one pass of the loop over the clusters,
\* up to the call that measures the cluster
MeasureCluster ==
    /\ pc = "cluster"
    /\ ci <= Len(final_clusters)
    /\ LET cluster == final_clusters[ci]
       IN IF Len(cluster.waypoints) = 1
          THEN /\ total_actual_time' = total_actual_time + 30 * 1000
               /\ total_actual_distance' = total_actual_distance + 50
               /\ result_clusters' = Append(result_clusters, cluster.waypoints)
               /\ ci' = ci + 1
               /\ UNCHANGED <<pc, final_clusters, num_clusters, best_performance,
                              best_actual_time, best_global_distance, scenarios, hops>>
          ELSE \E responses \in [1..max_retries -> ClusterAnswers] :
                   LET r == _call_kakao_api_with_retry(cluster, responses)
                   IN IF r.answer.next = "raise"
                      THEN ScenarioFails("cluster")
                      ELSE /\ total_actual_time' = total_actual_time + r.answer.duration
                           /\ total_actual_distance' =
                                  total_actual_distance + r.answer.distance
                           /\ final_clusters' =
                                  [final_clusters EXCEPT ![ci].waypoints = r.waypoints]
                           /\ result_clusters' = Append(result_clusters, r.waypoints)
                           /\ IF ci < Len(final_clusters)
                              THEN pc' = "hop" /\ ci' = ci
                              ELSE pc' = "cluster" /\ ci' = ci + 1
                           /\ UNCHANGED <<num_clusters, best_performance,
                                          best_actual_time, best_global_distance,
                                          scenarios, hops>>
    /\ UNCHANGED <<geocoded_data, valid_waypoints, global_result, results, call, big>>

\* the rest of the pass: the hop from the measured cluster to the next one
ConnectClusters ==
    /\ pc = "hop"
    /\ \E responses \in [1..3 -> HopAnswers] :
           LET a == _calculate_cluster_connection_time(
                        final_clusters[ci], final_clusters[ci + 1], responses)
           IN IF a.next = "raise"
              THEN ScenarioFails("hop")
              ELSE /\ total_actual_time' = total_actual_time + a.duration
                   /\ total_actual_distance' = total_actual_distance + a.distance
                   /\ hops' = Append(hops, [from |-> ci, kind |-> a.next,
                                             duration |-> a.duration,
                                             distance |-> a.distance])
                   /\ ci' = ci + 1
                   /\ pc' = "cluster"
                   /\ UNCHANGED <<final_clusters, result_clusters, num_clusters,
                                  best_performance, best_actual_time,
                                  best_global_distance, scenarios>>
    /\ UNCHANGED <<geocoded_data, valid_waypoints, global_result, results, call, big>>

\* the scenario returns its totals and the sweep compares them with the best
FinishScenario ==
    /\ pc = "cluster"
    /\ ci > Len(final_clusters)
    /\ LET b == UpdateBest(Best, total_actual_time, total_actual_distance, result_clusters)
       IN /\ best_performance' = b.performance
          /\ best_actual_time' = b.time
          /\ best_global_distance' = b.distance
          /\ scenarios' = Append(scenarios,
                 Scenario("none", IsBetter(Best, total_actual_time, result_clusters)))
    /\ num_clusters' = num_clusters + 1
    /\ pc' = "sweep"
    /\ ScenarioIdle
    /\ UNCHANGED <<geocoded_data, valid_waypoints, global_result, results, call, big>>

\* the hops measured in the scenario that was selected last, whose plan is
\* the best one (none when no scenario was selected)
BestConnections ==
    LET selected == {k \in 1..Len(scenarios) : scenarios[k].selected}
    IN IF selected = {} THEN <<>>
       ELSE scenarios[CHOOSE k \in selected : \A j \in selected : j <= k].connections

\* after the last scenario: the best plan, or the fallback when there is none;
\* from here on the history keeps the hops of the returned plan
ReturnBest ==
    /\ pc = "sweep"
    /\ num_clusters > max_clusters(Len(valid_waypoints))
    /\ global_result' = SweepResult(Best, valid_waypoints)
    /\ hops' = BestConnections
    /\ pc' = "returned"
    /\ UNCHANGED <<geocoded_data, valid_waypoints, num_clusters, best_performance,
                   best_actual_time, best_global_distance, final_clusters, ci,
                   total_actual_time, total_actual_distance, result_clusters, results,
                   scenarios, call, big>>

\* optimize_route, step 2: the batches are the clusters of the global result;
\* the locals of the sweep are gone
UseGlobalResult ==
    /\ pc = "returned"
    /\ pc' = "batch"
    /\ SweepIdle
    /\ UNCHANGED <<geocoded_data, valid_waypoints, final_clusters, ci,
                   total_actual_time, total_actual_distance, result_clusters,
                   global_result, results, hops, call, big>>

\* optimize_route, step 3: one pass of the loop over the batches
OptimizeBatch ==
    /\ pc = "batch"
    /\ Len(results) < Len(global_result.clusters)
    /\ \E response \in BatchAnswers(Len(global_result.clusters[Len(results) + 1]) - 1) :
           results' = Append(results,
               WithConnection(results,
                   _optimize_single_batch(Len(results),
                       global_result.clusters[Len(results) + 1], response)))
    /\ UNCHANGED <<pc, geocoded_data, valid_waypoints, num_clusters, best_performance,
                   best_actual_time, best_global_distance, final_clusters, ci,
                   total_actual_time, total_actual_distance, result_clusters,
                   global_result, scenarios, hops, call, big>>

\* after the loop: the totals of the global result go to the first result
Return ==
    /\ pc = "batch"
    /\ Len(results) = Len(global_result.clusters)
    /\ results' = ApplyTotals(results, global_result)
    /\ pc' = "done"
    /\ UNCHANGED <<geocoded_data, valid_waypoints, num_clusters, best_performance,
                   best_actual_time, best_global_distance, final_clusters, ci,
                   total_actual_time, total_actual_distance, result_clusters,
                   global_result, scenarios, hops, call, big>>

Next ==
    \/ Validate
    \/ optimize_global_clustering
    \/ BuildScenario
    \/ MeasureCluster
    \/ ConnectClusters
    \/ FinishScenario
    \/ ReturnBest
    \/ UseGlobalResult
    \/ OptimizeBatch
    \/ Return

Spec == Init /\ [][Next]_vars

-----------------------------------------------------------------------------
(* One directions call, attempt by attempt *)

\* what the provider may answer to one attempt
Answers ==
    {HttpOk(20 * 1000, 100), HttpOk(0, 100), HttpOk(1000, 5000),
     HttpCode(104), HttpCode(1), HttpNoSummary, HttpNoRoutes,
     HttpStatus(429), HttpStatus(400), HttpStatus(401), HttpStatus(403),
     HttpStatus(500), HttpTimeout}

\* a call about to make its first attempt; straight is the straight distance
\* between the two ends of a hop
NewCall(kind, straight) ==
    [kind |-> kind, straight |-> straight, attempt |-> 0, history |-> <<>>,
     waited |-> 0, status |-> "running", duration |-> 0, distance |-> 0]

\* no variable of the run of optimize_route is in use
RunIdle ==
    /\ pc = "idle"
    /\ geocoded_data = <<>>
    /\ valid_waypoints = <<>>
    /\ num_clusters = 0
    /\ best_performance = <<>>
    /\ best_actual_time = Inf
    /\ best_global_distance = Inf
    /\ final_clusters = <<>>
    /\ ci = 0
    /\ total_actual_time = 0
    /\ total_actual_distance = 0
    /\ result_clusters = <<>>
    /\ global_result = <<>>
    /\ results = <<>>
    /\ scenarios = <<>>
    /\ hops = <<>>

InitCall ==
    /\ RunIdle
    /\ \E kind \in {"cluster", "hop", "client"}, steps \in 0..2 :
           call = NewCall(kind, steps * GridStep)
    /\ big = NoBig

\* the call after an attempt that got the response and ended as a says; last
\* is what the code after the loop does when the attempts are used up
AfterAttempt(c, response, a, limit, last) ==
    LET b == IF a.next = "continue" /\ c.attempt + 1 >= limit THEN last ELSE a
    IN [c EXCEPT !.attempt = c.attempt + 1,
                 !.history = Append(c.history, response),
                 !.waited = c.waited + a.sleep,
                 !.status = CASE b.next = "continue" -> "running"
                              [] b.next = "return" -> "returned"
                              [] b.next = "estimate" -> "estimated"
                              [] a.next = "raise" -> "error"
                              [] OTHER -> "raised",
                 !.duration = b.duration,
                 !.distance = b.distance]

\* _call_kakao_api_with_retry: one attempt; after the third the call raises
ClusterCallStep ==
    /\ call.kind = "cluster"
    /\ call.status = "running"
    /\ \E response \in Answers :
           call' = AfterAttempt(call, response, ClusterAttempt(response, call.attempt),
                                max_retries, CallRaise)
    /\ UNCHANGED <<pipeVars, big>>

\* _calculate_cluster_connection_time: one attempt; after the third the
\* straight-line estimate is returned
HopCallStep ==
    /\ call.kind = "hop"
    /\ call.status = "running"
    /\ \E response \in Answers :
           call' = AfterAttempt(call, response, HopAttempt(response, call.attempt),
                                3, HopEstimate(call.straight))
    /\ UNCHANGED <<pipeVars, big>>

\* KakaoRouteApiClient.get_optimized_route: the only attempt
ClientCall ==
    /\ call.kind = "client"
    /\ call.status = "running"
    /\ \E response \in Answers :
           call' = AfterAttempt(call, response, get_optimized_route(response),
                                1, CallRaise)
    /\ UNCHANGED <<pipeVars, big>>

NextCall == ClusterCallStep \/ HopCallStep \/ ClientCall

SpecCall == InitCall /\ [][NextCall]_vars

-----------------------------------------------------------------------------
(* Cluster building on inputs with more than 30 points *)

\* the n points of a layout, with ids 1..n
BigWaypoints(layout, n) ==
    List([k \in 1..n |-> [id |-> k, x |-> Lon0,
                          y |-> Lat0 + Position(layout, k) * GridStep]])

ClusterIds(clusters) ==
    [c \in 1..Len(clusters) |->
        [k \in 1..Len(clusters[c].waypoints) |-> clusters[c].waypoints[k].id]]

InitBig ==
    /\ RunIdle
    /\ call = NoCall
    /\ \E layout \in {"line", "far_first", "one_place", "lump"},
          n \in (MaxBigN - 9)..MaxBigN :
           \E num \in (IF layout = "lump" THEN {max_clusters(n)} ELSE 2..3) :
               big = [pc |-> "input", layout |-> layout, n |-> n, num |-> num,
                      clusters |-> <<>>]

\* the plan of the scenario with big.num clusters
BigScenarioPlan ==
    /\ big.pc = "input"
    /\ big' = [big EXCEPT !.pc = "scenario",
                          !.clusters = ClusterIds(
                              BuildPlan(BigWaypoints(big.layout, big.n), big.num))]
    /\ UNCHANGED <<pipeVars, call>>

\* the plan of the fallback
BigFallbackPlan ==
    /\ big.pc = "input"
    /\ big' = [big EXCEPT !.pc = "fallback",
                          !.clusters = ClusterIds(
                              BuildPlan(BigWaypoints(big.layout, big.n),
                                        CeilDiv(big.n, MAX_WAYPOINTS_PER_BATCH)))]
    /\ UNCHANGED <<pipeVars, call>>

NextBig == BigScenarioPlan \/ BigFallbackPlan

SpecBig == InitBig /\ [][NextBig]_vars

-----------------------------------------------------------------------------
(* The coordinate filters on rows around the bounds of the region *)

\* longitudes (degrees) and latitudes (metres of arc) on both sides of every
\* bound of is_valid_coordinate
BoundaryLongitudes ==
    {-181, KOREA_MIN_LONGITUDE - 1, KOREA_MIN_LONGITUDE, KOREA_MAX_LONGITUDE,
     KOREA_MAX_LONGITUDE + 1}
BoundaryLatitudes ==
    {KOREA_MIN_LATITUDE * DegLen - 1, KOREA_MIN_LATITUDE * DegLen,
     KOREA_MAX_LATITUDE * DegLen, KOREA_MAX_LATITUDE * DegLen + 1, 100 * DegLen}

\* the (lon, lat) pairs of the rows
Coordinates(rows) == [k \in 1..Len(rows) |-> <<rows[k].longitude, rows[k].latitude>>]

InitCoord ==
    /\ pc = "coordinates"
    /\ \E n \in 0..MaxRows :
           \E f \in [1..n -> BoundaryLongitudes \X BoundaryLatitudes] :
               geocoded_data = [k \in 1..n |-> [id |-> k, longitude |-> f[k][1],
                                                latitude |-> f[k][2]]]
    /\ valid_waypoints = <<>>
    /\ num_clusters = 0
    /\ best_performance = <<>>
    /\ best_actual_time = Inf
    /\ best_global_distance = Inf
    /\ final_clusters = <<>>
    /\ ci = 0
    /\ total_actual_time = 0
    /\ total_actual_distance = 0
    /\ result_clusters = <<>>
    /\ global_result = <<>>
    /\ results = <<>>
    /\ scenarios = <<>>
    /\ hops = <<>>
    /\ call = NoCall
    /\ big = NoBig

\* both filters applied to the rows
ValidateCoordinates ==
    /\ pc = "coordinates"
    /\ valid_waypoints' = _validate_and_filter_waypoints(geocoded_data)
    /\ big' = [pc |-> "coordinates",
               valid_coordinates |-> validate_coordinate_list(Coordinates(geocoded_data))]
    /\ pc' = "validated"
    /\ UNCHANGED <<geocoded_data, num_clusters, best_performance, best_actual_time,
                   best_global_distance, final_clusters, ci, total_actual_time,
                   total_actual_distance, result_clusters, global_result, results,
                   scenarios, hops, call>>

NextCoord == ValidateCoordinates

SpecCoord == InitCoord /\ [][NextCoord]_vars

-----------------------------------------------------------------------------
(* BatchProcessor *)

\* a centroid is a mean of latitudes, kept exactly as sum / count of the
\* latitudes above Lat0 (distances do not change with the origin)
North(wp) == wp.y - Lat0
PointCentroid(wp) == [sum |-> North(wp), count |-> 1]

\* calculate_distance(point, a) < calculate_distance(point, b)
NearerCentroid(wp, a, b) ==
    Abs(North(wp) * a.count - a.sum) * b.count
        < Abs(North(wp) * b.count - b.sum) * a.count

\* the first centroid at the smallest distance ("if distance < min_distance")
_find_closest_centroid(wp, centroids) ==
    CHOOSE i \in 1..Len(centroids) :
        /\ \A j \in 1..(i - 1) : NearerCentroid(wp, centroids[i], centroids[j])
        /\ \A j \in (i + 1)..Len(centroids) :
               ~NearerCentroid(wp, centroids[j], centroids[i])

\* no centroid moved by more than tolerance * 1000 = 1 metre
_centroids_converged(old_centroids, new_centroids) ==
    \A c \in 1..Len(old_centroids) :
        Abs(old_centroids[c].sum * new_centroids[c].count
            - new_centroids[c].sum * old_centroids[c].count)
            <= old_centroids[c].count * new_centroids[c].count

\* the mean of a cluster; an empty cluster keeps its centroid
NewCentroid(cluster, centroid) ==
    IF cluster # <<>>
    THEN [sum |-> SumSeq([i \in 1..Len(cluster) |-> North(cluster[i])]),
          count |-> Len(cluster)]
    ELSE centroid

\* "for iteration in range(max_iterations)" from one iteration on; the
\* clusters of the last iteration made are the result
RECURSIVE KMeansLoop(_, _, _)
KMeansLoop(waypoints, centroids, iteration) ==
    LET k == Len(centroids)
        owner == List([i \in 1..Len(waypoints) |->
                          _find_closest_centroid(waypoints[i], centroids)])
        clusters == List([c \in 1..k |-> Members(waypoints, owner, c)])
        new_centroids == List([c \in 1..k |-> NewCentroid(clusters[c], centroids[c])])
    IN IF _centroids_converged(centroids, new_centroids) \/ iteration >= 9
       THEN clusters
       ELSE KMeansLoop(waypoints, new_centroids, iteration + 1)

\* the waypoints of the cluster objects: the non-empty clusters
_perform_kmeans_clustering(waypoints, k) ==
    IF k >= Len(waypoints) THEN [i \in 1..Len(waypoints) |-> <<waypoints[i]>>]
    ELSE NonEmpty(KMeansLoop(waypoints,
                             List([i \in 1..k |-> PointCentroid(waypoints[i])]), 0))

\* a sequential split that leaves out the last, shorter batch
SplitFullBatches(waypoints) ==
    [b \in 1..(Len(waypoints) \div MAX_WAYPOINTS_PER_BATCH) |->
        SubSeq(waypoints, (b - 1) * MAX_WAYPOINTS_PER_BATCH + 1,
               b * MAX_WAYPOINTS_PER_BATCH)]

_split_sequentially(waypoints) ==
    [b \in 1..CeilDiv(Len(waypoints), MAX_WAYPOINTS_PER_BATCH) |->
        SubSeq(waypoints, (b - 1) * MAX_WAYPOINTS_PER_BATCH + 1,
               MinOf(b * MAX_WAYPOINTS_PER_BATCH, Len(waypoints)))]

_split_by_geographic_clustering(waypoints) ==
    LET k == CeilDiv(Len(waypoints), MAX_WAYPOINTS_PER_BATCH)
        clusters == List(_perform_kmeans_clustering(waypoints, k))
    IN Flatten([c \in 1..Len(clusters) |->
                   IF Len(clusters[c]) <= MAX_WAYPOINTS_PER_BATCH THEN <<clusters[c]>>
                   ELSE _split_sequentially(clusters[c])])

\* has_xy: the waypoints are objects with the attributes x and y; without
\* them the clustering raises and the sequential split is used
split_waypoints(waypoints, has_xy) ==
    IF Len(waypoints) <= MAX_WAYPOINTS_PER_BATCH THEN <<waypoints>>
    ELSE IF has_xy THEN _split_by_geographic_clustering(waypoints)
    ELSE _split_sequentially(waypoints)

\* the ids of the waypoints of each batch
BatchIds(batches) ==
    [b \in 1..Len(batches) |-> [k \in 1..Len(batches[b]) |-> batches[b][k].id]]

InitSplit ==
    /\ RunIdle
    /\ call = NoCall
    /\ \E layout \in {"line", "far_first", "one_place", "lump"},
          n \in 0..MaxSplitN, has_xy \in BOOLEAN :
           big = [pc |-> "waypoints", layout |-> layout, n |-> n, has_xy |-> has_xy,
                  batches |-> <<>>]

SplitWaypoints ==
    /\ big.pc = "waypoints"
    /\ big' = [big EXCEPT !.pc = "batches",
                          !.batches = BatchIds(split_waypoints(
                                          BigWaypoints(big.layout, big.n), big.has_xy))]
    /\ UNCHANGED <<pipeVars, call>>

NextSplit == SplitWaypoints

SpecSplit == InitSplit /\ [][NextSplit]_vars

-----------------------------------------------------------------------------
(* main: the exit status of a command-line run *)

\* has_api_key: --api-key or KAKAO_API_KEY is set; optimization_results is
\* what optimize_route returned.  sys.exit(1) without a key and for an empty
\* list of results; otherwise the results are saved, the summary is printed
\* and main returns (status 0)
main(has_api_key, optimization_results) ==
    IF ~has_api_key THEN 1
    ELSE IF optimization_results = <<>> THEN 1
    ELSE 0

-----------------------------------------------------------------------------
(* The sweep alone: the scenarios return totals drawn from the provider *)

\* totals a scenario can return: sums of the durations (ms) and of the
\* distances (m) the provider reported for its clusters and hops
ScenarioTimes == {120 * 1000, 123 * 1000, 126 * 1000, 140 * 1000}
ScenarioDistances == {4 * 1000, 10 * 1000}

InitSweep ==
    /\ pc = "sweep"
    /\ \E n \in (MaxSweepN - 1)..MaxSweepN :
           /\ geocoded_data = Rows("line", n, TRUE, FALSE)
           /\ valid_waypoints = _validate_and_filter_waypoints(geocoded_data)
    /\ num_clusters = 2
    /\ best_performance = <<>>
    /\ best_actual_time = Inf
    /\ best_global_distance = Inf
    /\ final_clusters = <<>>
    /\ ci = 0
    /\ total_actual_time = 0
    /\ total_actual_distance = 0
    /\ result_clusters = <<>>
    /\ global_result = <<>>
    /\ results = <<>>
    /\ scenarios = <<>>
    /\ hops = <<>>
    /\ call = NoCall
    /\ big = NoBig

\* _test_real_api_performance as one step: it raises, or it has measured all
\* the clusters of its plan and is about to return its totals
TestScenario ==
    /\ pc = "sweep"
    /\ num_clusters <= max_clusters(Len(valid_waypoints))
    /\ \/ ScenarioFails("cluster")
       \/ \E actual_time \in ScenarioTimes, actual_distance \in ScenarioDistances :
              LET plan == BuildPlan(valid_waypoints, num_clusters)
              IN /\ final_clusters' = plan
                 /\ result_clusters' =
                        [c \in 1..Len(plan) |->
                            IF Len(plan[c].waypoints) = 1 THEN plan[c].waypoints
                            ELSE _optimize_cluster_internal_order(plan[c])]
                 /\ ci' = Len(plan) + 1
                 /\ total_actual_time' = actual_time
                 /\ total_actual_distance' = actual_distance
                 /\ pc' = "cluster"
                 /\ UNCHANGED <<num_clusters, best_performance, best_actual_time,
                                best_global_distance, scenarios, hops>>
    /\ UNCHANGED <<geocoded_data, valid_waypoints, global_result, results, call, big>>

NextSweep == TestScenario \/ FinishScenario \/ ReturnBest

SpecSweep == InitSweep /\ [][NextSweep]_vars

-----------------------------------------------------------------------------
(* Properties *)

Count(s, v) == Len(SelectSeq(s, LAMBDA e : e = v))
SameBag(a, b) == \A v \in Range(a) \cup Range(b) : Count(a, v) = Count(b, v)
OrderIds(rs) ==
    Flatten([k \in 1..Len(rs) |->
                [j \in 1..Len(rs[k].optimized_waypoints) |->
                    rs[k].optimized_waypoints[j].order_id]])
ValidIds ==
    LET ok == _validate_and_filter_waypoints(geocoded_data)
    IN [k \in 1..Len(ok) |-> ok[k].id]

\* C1 (Conservation): when optimize_route has returned, the order ids of the
\* optimized_waypoints of all results, taken in batch order, are the ids of the
\* rows that passed the validation, each as often as it came in.
C1_Conservation == pc = "done" => SameBag(OrderIds(results), ValidIds)

\* C2 (Cluster size bound): every cluster of a plan, of a scenario of the
\* sweep or of the fallback, has at least 1 and at most 30 members.
C2_ClusterSizeBound ==
    big.pc \in {"scenario", "fallback"} =>
        \A c \in 1..Len(big.clusters) :
            1 <= Len(big.clusters[c]) /\ Len(big.clusters[c]) <= MAX_WAYPOINTS_PER_BATCH

Succeeded == {k \in 1..Len(scenarios) : scenarios[k].ok}
\* the scenario whose plan is the best so far: the last one that was selected
Winner ==
    CHOOSE k \in Succeeded :
        scenarios[k].selected /\ \A j \in Succeeded : scenarios[j].selected => j <= k
Closure(k) == GlobalDistance(scenarios[k].clusters)
CloseTimes(a, b) == Abs(scenarios[a].time - scenarios[b].time) < 6 * 1000

\* C3 (Selection rule): after the sweep, of two measured scenarios the one
\* that is at least 6 s slower is not the winner; of two whose times differ
\* by less than 6 s the one with the larger distance from global start to
\* global end is not the winner, nor the later one when these distances are
\* equal.
C3_SelectionRule ==
    pc = "returned" =>
        \A a \in Succeeded : \A b \in Succeeded \ {a} :
            /\ scenarios[a].time + 6 * 1000 <= scenarios[b].time => Winner # b
            /\ CloseTimes(a, b) /\ Closure(a) < Closure(b) => Winner # b
            /\ CloseTimes(a, b) /\ Closure(a) = Closure(b) /\ a < b => Winner # b

\* C4 (Measured versus estimated): after the sweep, a scenario with a hop
\* resolved by the straight-line estimate is not the winner when another
\* scenario of the sweep had all its hops measured.
C4_EstimatedNeverBeatsMeasured ==
    pc = "returned" =>
        \A a \in Succeeded : \A b \in Succeeded :
            scenarios[a].estimated /\ ~scenarios[b].estimated => Winner # a

\* C5 (Hop accumulation): a measured scenario whose plan has K clusters has
\* evaluated exactly K - 1 hops.
C5_HopAccumulation ==
    \A k \in Succeeded : scenarios[k].hops = scenarios[k].planned - 1

\* C6 (Scenario failure isolation): the step in which a scenario fails leaves
\* the best time, plan and distance as they were and moves the sweep to the
\* next number of clusters; a failed scenario is never the selected one; and
\* the result returned after a sweep in which a scenario succeeded is the
\* plan and the time of the last selected scenario, which succeeded.
C6_FailureIsolation ==
    /\ [][(Len(scenarios') = Len(scenarios) + 1 /\ ~Last(scenarios').ok) =>
              /\ best_performance' = best_performance
              /\ best_actual_time' = best_actual_time
              /\ best_global_distance' = best_global_distance
              /\ num_clusters' = num_clusters + 1
              /\ pc' = "sweep"]_vars
    /\ [](\A k \in 1..Len(scenarios) : scenarios[k].selected => scenarios[k].ok)
    /\ [](pc = "returned" /\ Succeeded # {} =>
              /\ global_result.clusters = scenarios[Winner].clusters
              /\ global_result.total_duration_minutes = scenarios[Winner].time
              /\ best_actual_time = scenarios[Winner].time)

\* a sweep has returned in which the call of a cluster failed on all its
\* attempts in one scenario while another scenario was measured
C6_Witness ==
    /\ pc = "returned"
    /\ \E k \in 1..Len(scenarios) : scenarios[k].failure = "cluster"
    /\ \E k \in Succeeded : k > 1 /\ ~scenarios[k - 1].ok
    /\ global_result.clusters = scenarios[Winner].clusters

\* the keys of the dictionary returned for a measured plan
MeasuredKeys == {"clusters", "total_duration_minutes", "total_distance_km", "cluster_count"}

\* C7 (Degraded fallback): when every scenario of the sweep has failed, the
\* returned result is the fallback plan for K = ceil(N / 30) and carries a
\* mark that a result with measured totals does not carry.
C7_DegradedFallback ==
    pc = "returned" /\ scenarios # <<>> /\ Succeeded = {} =>
        /\ global_result.cluster_count >= CeilDiv(Len(valid_waypoints), MAX_WAYPOINTS_PER_BATCH)
        /\ global_result.clusters =
               _optimize_multi_cluster_fallback(valid_waypoints).clusters
        /\ DOMAIN global_result # MeasuredKeys

\* C8 (Bounded retry): a cluster or hop call makes at most 3 attempts, and
\* when it has ended, a cluster call has returned a measurement or raised its
\* failure, a hop call has returned a measurement or the estimate.
C8_BoundedRetry ==
    call.kind \in {"cluster", "hop"} =>
        /\ call.attempt <= 3
        /\ call.attempt = 3 => call.status # "running"
        /\ call.kind = "cluster" => call.status \in {"running", "returned", "raised"}
        /\ call.kind = "hop" => call.status \in {"running", "returned", "estimated"}

Refused(response) == response.kind = "http" /\ response.status \in {400, 401, 403}

\* C9 (Non-retryable HTTP errors): a call whose last attempt received HTTP
\* 400, 401 or 403 has failed: it is not going to make another attempt and has
\* not returned a value.
C9_NonRetryable ==
    call.kind \in {"cluster", "hop", "client"} /\ call.history # <<>>
        /\ Refused(Last(call.history))
    => call.status \in {"raised", "error"}

TooMany(response) == response.kind = "http" /\ response.status = 429
Measured(response) ==
    /\ response.kind = "http" /\ response.status = 200 /\ response.routes
    /\ response.result_code = 0 /\ response.summary

\* C10 (Rate-limit handling): a cluster or hop call that was answered 429,
\* 429, 200 has returned on its third attempt after at least 5 s of waiting.
C10_RateLimit ==
    /\ call.kind \in {"cluster", "hop"}
    /\ Len(call.history) = 3
    /\ TooMany(call.history[1]) /\ TooMany(call.history[2])
    /\ Measured(call.history[3])
    /\ call.history[3].duration > 0
    => call.status = "returned" /\ call.waited >= 5

Nearby(response) ==
    /\ response.kind = "http" /\ response.status = 200 /\ response.routes
    /\ response.result_code = 104

\* C11 (Result code 104 on a cluster call): a cluster call whose last attempt
\* was answered HTTP 200 with result_code 104 has returned 30 s and 10 m, the
\* values added to the totals of the scenario, and makes no further attempt.
C11_ClusterCode104 ==
    call.kind = "cluster" /\ call.history # <<>> /\ Nearby(Last(call.history)) =>
        /\ call.status = "returned"
        /\ call.duration = 30 * 1000
        /\ call.distance = 10
        /\ call.attempt = Len(call.history)

\* a cluster call answered 104 on its second attempt has returned
C11_Witness ==
    /\ call.kind = "cluster" /\ Len(call.history) = 2
    /\ ~Nearby(call.history[1]) /\ Nearby(call.history[2])
    /\ call.status = "returned" /\ call.duration = 30 * 1000

\* C12 (Degenerate hop): a hop call between two ends within 5 m of each other
\* has ended without any attempt sent to the provider and with 30 s and 10 m.
C12_DegenerateHop ==
    call.kind = "hop" /\ call.straight <= 5 /\ call.status # "running" =>
        /\ call.history = <<>>
        /\ call.duration = 30 * 1000
        /\ call.distance = 10

\* the cluster about to be measured has a single member
SinglePointNext ==
    pc = "cluster" /\ ci <= Len(final_clusters) /\ Len(final_clusters[ci].waypoints) = 1

\* C13 (Single-point cluster): the step that measures a cluster of one member
\* adds 30 s and 10 m to the totals of the scenario, and a batch of one point
\* in the returned results carries the same 30 s and 10 m.
C13_SinglePointCluster ==
    /\ [][SinglePointNext =>
              /\ total_actual_time' = total_actual_time + 30 * 1000
              /\ total_actual_distance' = total_actual_distance + 10]_vars
    /\ [](pc = "done" =>
              \A k \in 2..Len(results) :
                  results[k].total_waypoints = 1 =>
                      /\ results[k].total_duration = 30 * 1000
                      /\ results[k].total_distance = 10)

\* C14 (Sweep range): during the sweep the finished scenarios are those of
\* 2, 3, ... up to the one before the number under evaluation, one each and in
\* this order; when the sweep over N > 3 points has returned, they are the
\* scenarios of every number from 2 to max(2, ceil(N / 2)).
C14_SweepRange ==
    /\ pc \in {"sweep", "cluster", "hop"} =>
           /\ Len(scenarios) = num_clusters - 2
           /\ \A k \in 1..Len(scenarios) : scenarios[k].num_clusters = k + 1
    /\ pc = "returned" /\ Len(valid_waypoints) > 3 =>
           /\ Len(scenarios) = MaxOf(2, CeilDiv(Len(valid_waypoints), 2)) - 1
           /\ \A k \in 1..Len(scenarios) : scenarios[k].num_clusters = k + 1

\* C15 (Cluster count bound): a plan built for N points, of a scenario of the
\* sweep or of the fallback, has at least 1 and at most max(1, ceil(N / 2))
\* clusters.
C15_ClusterCountBound ==
    big.pc \in {"scenario", "fallback"} =>
        /\ 1 <= Len(big.clusters)
        /\ Len(big.clusters) <= MaxOf(1, CeilDiv(big.n, 2))

\* C16 (Endpoint membership): in every state of the evaluation of a scenario,
\* before and after the internal ordering of its clusters, the start_point
\* and the end_point of each cluster of the plan are among its waypoints.
C16_EndpointMembership ==
    \A c \in 1..Len(final_clusters) :
        /\ final_clusters[c].start_point \in Range(final_clusters[c].waypoints)
        /\ final_clusters[c].end_point \in Range(final_clusters[c].waypoints)

\* a cluster of four or more points, with distinct ends, has been put in its
\* internal order and is followed by another cluster
C16_Witness ==
    /\ pc = "hop"
    /\ Len(final_clusters[ci].waypoints) >= 4
    /\ final_clusters[ci].start_point # final_clusters[ci].end_point
    /\ final_clusters[ci].waypoints[1] = final_clusters[ci].start_point
    /\ Last(final_clusters[ci].waypoints) = final_clusters[ci].end_point

\* C17 (Monotone cumulative values): in the rows written for the results of
\* a run, taken in the order of the batches, the cumulative distance and the
\* cumulative duration never decrease from one row to the next, across the
\* boundaries of the batches as well.
RouteRows == save_optimization_results(results)
FirstOfLaterBatch(k) ==
    /\ RouteRows[k].batch_number > 1
    /\ k > 1 => RouteRows[k - 1].batch_number < RouteRows[k].batch_number
C18_HopAsPriorLeg ==
    pc = "done" /\ hops # <<>> =>
        \A k \in 1..Len(RouteRows) :
            FirstOfLaterBatch(k) =>
                /\ RouteRows[k].distance_from_prev =
                       hops[RouteRows[k].batch_number - 1].distance
                /\ RouteRows[k].duration_from_prev =
                       hops[RouteRows[k].batch_number - 1].duration

\* C19 (Single cluster for small inputs): when optimize_global_clustering has
\* returned for an input of at least 1 and at most 30 valid points, its plan
\* has exactly one cluster, which holds all the valid points, and no hop was
\* measured for it.
C19_SingleClusterForSmallInputs ==
    /\ pc = "returned"
    /\ Len(valid_waypoints) >= 1
    /\ Len(valid_waypoints) <= MAX_WAYPOINTS_PER_BATCH
    => /\ Len(global_result.clusters) = 1
       /\ global_result.cluster_count = 1
       /\ Len(global_result.clusters[1]) = Len(valid_waypoints)
       /\ Range(global_result.clusters[1]) = Range(valid_waypoints)
       /\ hops = <<>>

\* C20 (Plausibility requeue): when the latest answer to a cluster call is a
\* 200 answer with a route of result_code 0 whose summary reports a duration
\* of zero, or an average speed above 800 km/h, and fewer than max_retries
\* attempts have been made, the call has not returned: it goes on with the
\* next attempt.
Implausible(response) ==
    /\ response.kind = "http"
    /\ response.status = 200
    /\ response.routes
    /\ response.result_code = 0
    /\ response.summary
    /\ \/ response.duration = 0
       \/ ExtremeSpeed(response.duration, response.distance)
C20_PlausibilityRequeue ==
    /\ call.kind = "cluster"
    /\ call.history # <<>>
    /\ Implausible(Last(call.history))
    /\ Len(call.history) < max_retries
    => call.status = "running"

\* C21 (Regional filtering): is_valid_coordinate is true exactly for the
\* coordinates with 124 <= longitude <= 132 and 33 <= latitude <= 43 degrees;
\* validate_coordinate_list and _validate_and_filter_waypoints return the
\* rows inside these bounds and no others, each once, in the order of input.
InRegion(longitude, latitude) ==
    /\ 124 <= longitude /\ longitude <= 132
    /\ 33 * DegLen <= latitude /\ latitude <= 43 * DegLen
RowsInRegion ==
    {k \in 1..Len(geocoded_data) :
        InRegion(geocoded_data[k].longitude, geocoded_data[k].latitude)}
C21_RegionalFiltering ==
    pc = "validated" =>
        /\ \A k \in 1..Len(geocoded_data) :
               is_valid_coordinate(geocoded_data[k].longitude, geocoded_data[k].latitude)
                   <=> k \in RowsInRegion
        /\ {valid_waypoints[j].id : j \in 1..Len(valid_waypoints)} = RowsInRegion
        /\ Len(valid_waypoints) = Cardinality(RowsInRegion)
        /\ \A j \in 1..Len(valid_waypoints) :
               /\ valid_waypoints[j].x = geocoded_data[valid_waypoints[j].id].longitude
               /\ valid_waypoints[j].y = geocoded_data[valid_waypoints[j].id].latitude
               /\ j > 1 => valid_waypoints[j - 1].id < valid_waypoints[j].id
        /\ Len(big.valid_coordinates) = Cardinality(RowsInRegion)
        /\ \A j \in 1..Len(valid_waypoints) :
               big.valid_coordinates[j] =
                   Coordinates(geocoded_data)[valid_waypoints[j].id]
\* a row outside the region before a row on its border: only the second passes
C21_Witness ==
    /\ pc = "validated"
    /\ Len(geocoded_data) = 2
    /\ geocoded_data[1].longitude = KOREA_MAX_LONGITUDE + 1
    /\ geocoded_data[2].longitude = KOREA_MAX_LONGITUDE
    /\ geocoded_data[2].latitude = KOREA_MIN_LATITUDE * DegLen
    /\ Len(valid_waypoints) = 1
    /\ valid_waypoints[1].id = 2

\* C22 (split_waypoints partitions its input): every batch returned for N
\* waypoints has at most 30 of them and the batches together hold every
\* waypoint exactly once; for N <= 30 the result is one batch with the whole
\* input (one empty batch for N = 0), for N > 30 more than one batch, with
\* the geographic clustering and with the sequential split.
C22_SplitPartitions ==
    big.pc = "batches" =>
        /\ \A b \in 1..Len(big.batches) : Len(big.batches[b]) <= 30
        /\ \A id \in 1..big.n : Count(Flatten(big.batches), id) = 1
        /\ Len(Flatten(big.batches)) = big.n
        /\ big.n <= 30 => big.batches = <<[k \in 1..big.n |-> k]>>
        /\ big.n > 30 => Len(big.batches) > 1
\* the clustering made a cluster of more than 30 waypoints, which was split
C22_Witness ==
    /\ big.pc = "batches"
    /\ big.has_xy
    /\ big.n > 60
    /\ Len(big.batches) > CeilDiv(big.n, 30)
    /\ \E b \in 1..Len(big.batches) : Len(big.batches[b]) = 30

\* C23 (Exit status): for the results of a finished run of optimize_route,
\* the exit status is non-zero when the credentials are missing, non-zero
\* when at least one batch result failed, and 0 only when every batch
\* succeeded.
C23_ExitStatus ==
    pc = "done" =>
        /\ main(FALSE, results) # 0
        /\ (\E r \in 1..Len(results) : ~results[r].success) => main(TRUE, results) # 0
        /\ main(TRUE, results) = 0 => \A r \in 1..Len(results) : results[r].success

\* C24 (Internal ordering preserves membership): whenever a cluster of a
\* scenario has been measured, the order stored for it holds each waypoint
\* the cluster had before exactly once, and so has the same length.
ClusterOrdered == Len(result_clusters') = Len(result_clusters) + 1
C24_InternalOrderMembership ==
    [][ClusterOrdered =>
          /\ Len(Last(result_clusters')) = Len(final_clusters[ci].waypoints)
          /\ SameBag(Last(result_clusters'), final_clusters[ci].waypoints)]_vars

\* C25 (Internal ordering honours the fixed endpoints): a cluster of at least
\* 3 waypoints whose entry and exit are different points is stored, when it
\* has been measured, in an order that starts with the entry, ends with the
\* exit and lists the points between them nearest-first: each one is, among
\* the interior points not yet listed, one closest to the point before it.
NearestFirst(order) ==
    \A k \in 2..(Len(order) - 1) : \A j \in (k + 1)..(Len(order) - 1) :
        Dist(order[k - 1], order[k]) <= Dist(order[k - 1], order[j])
C25_FixedEndpoints ==
    [][/\ ClusterOrdered
       /\ Len(final_clusters[ci].waypoints) >= 3
       /\ final_clusters[ci].start_point # final_clusters[ci].end_point
       => /\ Head(Last(result_clusters')) = final_clusters[ci].start_point
          /\ Last(Last(result_clusters')) = final_clusters[ci].end_point
          /\ NearestFirst(Last(result_clusters'))]_vars

\* C26 (Cluster building returns exactly K groups): the plan just built for a
\* scenario of the sweep (2 <= num_clusters <= N) has exactly num_clusters
\* clusters, none of them empty, which together hold every valid waypoint
\* exactly once.
PlanBuilt == pc = "cluster" /\ ci = 1 /\ result_clusters = <<>>
PlanWaypoints == Flatten([c \in 1..Len(final_clusters) |-> final_clusters[c].waypoints])
C26_ExactlyKClusters ==
    PlanBuilt =>
        /\ Len(final_clusters) = num_clusters
        /\ \A c \in 1..Len(final_clusters) : final_clusters[c].waypoints # <<>>
        /\ Len(PlanWaypoints) = Len(valid_waypoints)
        /\ SameBag(PlanWaypoints, valid_waypoints)

\* C27 (No drift of the best time): when the sweep has returned the plan of
\* a measured scenario, the returned total time is less than 0.1 min above
\* the smallest total time of all the scenarios that succeeded.
C27_NoDrift ==
    pc = "returned" /\ Succeeded # {} =>
        \A k \in Succeeded :
            global_result.total_duration_minutes < scenarios[k].time + 6 * 1000

\* C28 (The measured route visits the whole cluster): whenever a cluster of
\* at least 2 waypoints has been measured, the origin, the intermediate
\* waypoints and the destination of the request built for it hold, together,
\* each waypoint of the cluster exactly once.
RequestPoints(request) == <<request.origin>> \o request.waypoints \o <<request.destination>>
C28_RequestVisitsCluster ==
    [][ClusterOrdered /\ Len(final_clusters[ci].waypoints) >= 2 =>
          SameBag(RequestPoints(api_data(final_clusters[ci])),
                  final_clusters[ci].waypoints)]_vars

\* C30 (A hop never fails a scenario): whatever the provider answers to the
\* hop request, the step that connects two clusters hands a time and a distance
\* to the scenario, which goes on with the next cluster; no scenario ends
\* because of a hop.
C30_HopNeverFails ==
    [][pc = "hop" => pc' = "cluster" /\ Len(hops') = Len(hops) + 1]_vars

\* C29 (Per-batch totals stay the batch's own): the step that ends
\* optimize_route leaves total_distance and total_duration of every successful
\* result, the first one included, as the batch's own call (or the constants
\* of a single point) set them.
C29_OwnBatchTotals ==
    [][pc' = "done" =>
          \A k \in DOMAIN results :
              results[k].success =>
                  /\ results'[k].total_distance = results[k].total_distance
                  /\ results'[k].total_duration = results[k].total_duration]_vars

=========================================================================
